---------------------------- MODULE Spec2Model ----------------------------
(***************************************************************************)
(* A model of the endgame prototype: the prime field (crypto/field.rs),    *)
(* the array-backed Merkle tree (crypto/merkle.rs) and the Reed-Solomon    *)
(* accumulator (accumulator/reed_solomon.rs).                              *)
(*                                                                         *)
(* Four specifications share the variables:                                *)
(*   SpecField   applies the field operations to bounded inputs,           *)
(*   SpecMerkle  builds trees, generates and verifies audit paths, with a  *)
(*               caller that may alter one input of verify_proof,          *)
(*   Spec        drives two accumulators through accumulate/fold/verify,   *)
(*   SpecTamper  is accumulate/verify with a caller that may alter one     *)
(*               entry of the proof before verifying it.                   *)
(*                                                                         *)
(* SHA-256 is modelled as a collision-free constructor on sequences.  A    *)
(* Rust panic is an outcome of the operation that raises it: the state     *)
(* records it and the run stops there.                                     *)
(***************************************************************************)
EXTENDS Integers, Sequences, FiniteSets

VARIABLES
  fld,      \* the last field operation applied, its inputs and its result
  tree,     \* the Merkle tree under test
  leaves,   \* the leaves the tree was built from
  query,    \* the last verify_proof call: leaf, index, proof, result
  accs,     \* the two accumulators, "A" and "B"
  held,     \* the proof the caller holds, and where it came from
  last,     \* the last accumulator operation, its inputs and its outcome
  nOps      \* number of accumulate and of fold calls made so far

fvars == <<fld>>
mvars == <<tree, leaves, query>>
avars == <<accs, held, last, nOps>>
vars == <<fld, tree, leaves, query, accs, held, last, nOps>>

\* With(e, F) is F of the value of e: it names a value that is used more
\* than once.
With(e, F(_)) == CHOOSE r \in {F(x) : x \in {e}} : TRUE

-----------------------------------------------------------------------------
(* crypto/field.rs                                                         *)

FIELD_PRIME == 2147483647

\* A FieldElement::new without the reduction modulo the prime: the variant
\* against which the range of the results is checked.
FieldNewUnreduced(value) == value

\* FieldElement::new: the value reduced modulo the prime.
FieldNew(value) == value % FIELD_PRIME

zero == 0
one == 1

\* impl Add: sum = a + b; sum - P when sum >= P.  The comparison is written
\* a >= P - b so that no intermediate leaves the 32-bit range of the checker.
FieldAdd(a, b) ==
  FieldNew(IF a >= FIELD_PRIME - b THEN a - (FIELD_PRIME - b) ELSE a + b)

\* impl Sub.
FieldSub(a, b) ==
  FieldNew(IF a >= b THEN a - b ELSE FIELD_PRIME - (b - a))

\* impl Mul: (a as u128 * b as u128 % P).  The exact product is formed from
\* 11-bit limbs and reduced with 2^31 = 1 (mod P), P = 2^31 - 1, so that no
\* intermediate leaves the 32-bit range of the checker; the value is the
\* same as the u128 computation's.
FieldMul(a, b) ==
  LET a0 == a % 2048
      a1 == (a \div 2048) % 2048
      a2 == a \div 4194304
      b0 == b % 2048
      b1 == (b \div 2048) % 2048
      b2 == b \div 4194304
      c0 == a0 * b0
      c1 == a0 * b1 + a1 * b0
      c2 == a0 * b2 + a1 * b1 + a2 * b0
      c3 == a1 * b2 + a2 * b1
      c4 == a2 * b2
      t1 == (c1 \div 1048576) + (c1 % 1048576) * 2048
      t2 == (c2 \div 512) + (c2 % 512) * 4194304
      t3 == c0 + c3 * 4
      t4 == c4 * 8192
      Sum(x, y) == IF x >= FIELD_PRIME - y THEN x - (FIELD_PRIME - y) ELSE x + y
  IN  FieldNew(Sum(Sum(t1 % FIELD_PRIME, t2 % FIELD_PRIME),
                   Sum(t3 % FIELD_PRIME, t4 % FIELD_PRIME)))

\* The while loop of pow: one iteration per call, on the loop's variables.
RECURSIVE powLoop(_)
powLoop(s) ==
  IF s.exp > 1
  THEN powLoop([result |-> IF s.exp % 2 = 1 THEN FieldMul(s.result, s.base)
                                            ELSE s.result,
                base   |-> FieldMul(s.base, s.base),
                exp    |-> s.exp \div 2])
  ELSE s

\* FieldElement::pow: result and base both start as self.
pow(self, exp) ==
  IF exp = 0 THEN one
  ELSE With(powLoop([result |-> self, base |-> self, exp |-> exp]),
            LAMBDA s : IF s.exp = 1 THEN FieldMul(s.result, s.base) ELSE s.result)

\* FieldElement::inverse: None for zero, else Some(self.pow(P - 2)).
inverse(self) ==
  IF self = 0 THEN [some |-> FALSE, v |-> 0]
  ELSE [some |-> TRUE, v |-> pow(self, FIELD_PRIME - 2)]

\* impl Div: self * inv, or panic!("Division by zero").
FieldDiv(a, b) ==
  With(inverse(b),
       LAMBDA inv : IF inv.some THEN [panic |-> FALSE, v |-> FieldMul(a, inv.v)]
                    ELSE [panic |-> TRUE, v |-> 0])

-----------------------------------------------------------------------------
(* crypto/merkle.rs                                                        *)

\* Sha256 as a collision-free constructor: the digest of a byte string is
\* the string between two marks that no byte (0..255) equals, so distinct
\* inputs have distinct digests and a digest is never a run of raw bytes.
Sha256(bytes) == <<-1>> \o bytes \o <<-2>>

\* vec![0u8; 32]
ZeroDigest == [k \in 1..32 |-> 0]

\* nodes[i] (0-based) as MerkleTree::new leaves it.  The leaves' digests are
\* stored at leaf_count - 1 + k; the "build internal nodes" loop runs i from
\* leaf_count - 2 down to 0 and sets nodes[i] to the digest of nodes[2i + 1]
\* followed by nodes[2i + 2], both of which are final when i is reached.
RECURSIVE node(_, _)
node(lvs, i) ==
  IF i >= Len(lvs) - 1 THEN Sha256(lvs[i - (Len(lvs) - 1) + 1])
  ELSE Sha256(node(lvs, 2 * i + 1) \o node(lvs, 2 * i + 2))

\* MerkleTree::new.  nodes is 0-based in the source, 1-based here.
MerkleNew(lvs) ==
  IF Len(lvs) = 0 THEN [nodes |-> <<ZeroDigest>>, leaf_count |-> 0]
  ELSE [nodes      |-> [k \in 1..(2 * Len(lvs) - 1) |-> node(lvs, k - 1)],
        leaf_count |-> Len(lvs)]

\* MerkleTree::root
root(t) == t.nodes[1]

\* The sibling of node `current`: its left neighbour if it is a right child
\* (even), its right neighbour otherwise.
sibling(current) == IF current % 2 = 0 THEN current - 1 ELSE current + 1

\* The while loop of generate_proof.
RECURSIVE proofLoop(_, _)
proofLoop(t, s) ==
  IF s.current > 0
  THEN proofLoop(t, [proof   |-> IF sibling(s.current) < Len(t.nodes)
                                 THEN Append(s.proof, t.nodes[sibling(s.current) + 1])
                                 ELSE s.proof,
                     current |-> (s.current - 1) \div 2])
  ELSE s

\* MerkleTree::generate_proof
generate_proof(t, index) ==
  IF index >= t.leaf_count THEN <<>>
  ELSE proofLoop(t, [proof |-> <<>>, current |-> t.leaf_count - 1 + index]).proof

\* The for loop of verify_proof over the proof's elements.
RECURSIVE verifyLoop(_, _)
verifyLoop(proof, s) ==
  IF s.k <= Len(proof)
  THEN verifyLoop(proof,
         [current       |-> IF s.current_index % 2 = 0
                            THEN Sha256(s.current \o proof[s.k])
                            ELSE Sha256(proof[s.k] \o s.current),
          current_index |-> s.current_index \div 2,
          k             |-> s.k + 1])
  ELSE s

\* MerkleTree::verify_proof
verify_proof(rt, leaf, proof, index) ==
  verifyLoop(proof, [current |-> Sha256(leaf), current_index |-> index,
                     k |-> 1]).current = rt

-----------------------------------------------------------------------------
(* accumulator/reed_solomon.rs                                             *)

EVAL_DOMAIN_SIZE == 256
NUM_CHALLENGES == 2

\* Bounds of the model: the inputs the operations are applied to.
\* MaxLen: the longest ramp <<1, ..., n>> given to accumulate;
\* MaxAccumulates, MaxFolds: accumulate and fold calls in one run;
\* MaxLeaves: the most leaves of a tree; MaxExp: the largest exponent given
\* to pow directly.
MaxLen == 3
MaxAccumulates == 2
MaxFolds == 1
MaxLeaves == 4
MaxExp == 6

\* Random field elements the sampling loop of accumulate may draw: 2 is a
\* domain point once degree >= 3, 1073741824 = 2^30 is 1/2 modulo the prime.
ChallengePoints == {2, 1073741824}

\* Folding coefficients fold may draw.
Alphas == {0, 2}

\* State vectors given to accumulate: <<1, ..., n>> for n in 0..MaxLen,
\* <<3, 1>>, and one vector longer than the domain.
Ramp(n) == [i \in 1..n |-> FieldNew(i)]
Oversized == [i \in 1..(EVAL_DOMAIN_SIZE + 1) |-> FieldNew(i)]
StateInputs == {Ramp(n) : n \in 0..MaxLen} \cup {<<FieldNew(3), FieldNew(1)>>, Oversized}

\* u64::to_le_bytes: the n low bytes of v, least significant first.
RECURSIVE to_le_bytes(_, _)
to_le_bytes(v, n) ==
  IF n = 0 THEN <<>> ELSE <<v % 256>> \o to_le_bytes(v \div 256, n - 1)

\* serialize_field_element: the 8 little-endian bytes of the value.
serialize_field_element(fe) == to_le_bytes(fe, 8)

\* ReedSolomonAccumulator::new
new ==
  [evaluations |-> [k \in 1..EVAL_DOMAIN_SIZE |-> zero],
   domain      |-> [k \in 1..EVAL_DOMAIN_SIZE |-> FieldNew(k - 1)],
   degree      |-> 0,
   merkle_root |-> root(MerkleNew(<<>>))]

\* The inner loop of evaluate_at (j in 0..degree, skipping j = i):
\*   weight = weight * (x - domain[j]) / (domain[i] - domain[j])
RECURSIVE weightLoop(_, _, _, _)
weightLoop(self, x, i, s) ==
  IF s.j < self.degree /\ ~s.panic
  THEN IF i # s.j
       THEN With(FieldDiv(FieldMul(s.weight, FieldSub(x, self.domain[s.j + 1])),
                          FieldSub(self.domain[i + 1], self.domain[s.j + 1])),
                 LAMBDA q : weightLoop(self, x, i,
                              [weight |-> q.v, j |-> s.j + 1, panic |-> q.panic]))
       ELSE weightLoop(self, x, i, [s EXCEPT !.j = s.j + 1])
  ELSE s

\* The outer loop of evaluate_at (i in 0..degree): num and den.
RECURSIVE sumLoop(_, _, _)
sumLoop(self, x, s) ==
  IF s.i < self.degree /\ ~s.panic
  THEN With(weightLoop(self, x, s.i, [weight |-> one, j |-> 0, panic |-> FALSE]),
            LAMBDA w : sumLoop(self, x,
              [num   |-> FieldAdd(s.num, FieldMul(w.weight, self.evaluations[s.i + 1])),
               den   |-> FieldAdd(s.den, w.weight),
               i     |-> s.i + 1,
               panic |-> w.panic]))
  ELSE s

\* The end of evaluate_at, after the loops: zero if den is zero, else
\* num / den.
quotient(s) ==
  IF s.panic THEN [v |-> zero, path |-> "div", panic |-> TRUE]
  ELSE IF s.den = 0 THEN [v |-> zero, path |-> "den0", panic |-> FALSE]
  ELSE With(FieldDiv(s.num, s.den),
            LAMBDA q : [v |-> q.v, path |-> "div", panic |-> q.panic])

\* evaluate_at.  path names the return taken: "degree0" (line 39), "lookup"
\* (line 44), "den0" (line 63), "div" (line 65); panic is a panic raised by a
\* division.
evaluate_at(self, x) ==
  IF self.degree = 0 THEN [v |-> zero, path |-> "degree0", panic |-> FALSE]
  ELSE IF \E i \in 1..self.degree : x = self.domain[i]
  THEN [v |-> self.evaluations[CHOOSE i \in 1..self.degree :
                                 /\ x = self.domain[i]
                                 /\ \A k \in 1..(i - 1) : x # self.domain[k]],
        path |-> "lookup", panic |-> FALSE]
  ELSE quotient(sumLoop(self, x, [num |-> zero, den |-> zero, i |-> 0, panic |-> FALSE]))

\* build_merkle_tree: the tree over the serialized evaluations[..degree].
build_merkle_tree(self) ==
  MerkleNew([k \in 1..self.degree |-> serialize_field_element(self.evaluations[k])])

\* A verify_merkle_proof that accepts every audit path: the variant against
\* which the rejection of altered proofs is checked.
verify_merkle_proof_accepting(rt, proof, leaf, index) == TRUE

\* verify_merkle_proof
verify_merkle_proof(rt, proof, leaf, index) == verify_proof(rt, leaf, proof, index)

\* An RSProof with nothing in it: what the caller holds before any proof.
NoProof ==
  [challenge_evals |-> <<>>, challenge_points |-> <<>>, domain_evals |-> <<>>,
   eval_indices |-> <<>>, merkle_root |-> <<>>, merkle_proofs |-> <<>>]

\* The outcomes of the sampling loop of accumulate (lines 165-172) for one
\* challenge: a random field element that is not in domain[..degree].
sample(self) ==
  {p \in ChallengePoints : \A k \in 1..self.degree : self.domain[k] # p}

\* The challenge points a call of accumulate that ends with `degree` may draw:
\* none when it panics before or at the sampling.
PointChoices(self, degree) ==
  IF degree = 0 \/ degree > Len(self.domain) THEN {<<>>}
  ELSE [1..NUM_CHALLENGES -> sample([self EXCEPT !.degree = degree])]

\* eval_indices of accumulate (line 147), 0-based as in the source.
evalIndices(self) == [i \in 1..NUM_CHALLENGES |-> (i - 1) % self.degree]

\* The RSProof accumulate builds (lines 151-186) from the tree t and the
\* challenge evaluations.
makeProof(self, t, points, evals) ==
  [challenge_evals  |-> [i \in 1..NUM_CHALLENGES |-> evals[i].v],
   challenge_points |-> points,
   domain_evals     |-> [i \in 1..NUM_CHALLENGES |->
                           self.evaluations[evalIndices(self)[i] + 1]],
   eval_indices     |-> evalIndices(self),
   merkle_root      |-> self.merkle_root,
   merkle_proofs    |-> [i \in 1..NUM_CHALLENGES |->
                           generate_proof(t, evalIndices(self)[i])]]

\* accumulate after line 145, on the accumulator with its new evaluations,
\* degree and root.  panic names the panic that ends the call, if any: the
\* accumulator then keeps what the call had assigned before it.
accumulateFrom(self, t, points) ==
  IF self.degree = 0
  THEN \* line 147: i % self.degree
       [acc |-> self, panic |-> "remainder by zero", proof |-> NoProof]
  ELSE IF self.degree > Len(self.domain)
  THEN \* line 168: self.domain[..self.degree]
       [acc |-> self, panic |-> "slice index out of range", proof |-> NoProof]
  ELSE With([i \in 1..NUM_CHALLENGES |-> evaluate_at(self, points[i])],
            LAMBDA evals :
              IF \E i \in 1..NUM_CHALLENGES : evals[i].panic
              THEN [acc |-> self, panic |-> "division by zero", proof |-> NoProof]
              ELSE [acc |-> self, panic |-> "none",
                    proof |-> makeProof(self, t, points, evals)])

\* accumulate, with the sampled challenge points as an input: lines 140-145
\* replace the evaluations, the degree and the root.
accumulate(self, state, points) ==
  With(build_merkle_tree([self EXCEPT !.evaluations = state, !.degree = Len(state)]),
       LAMBDA t :
         accumulateFrom([self EXCEPT !.evaluations = state, !.degree = Len(state),
                                     !.merkle_root = root(t)], t, points))

\* A verify without the loop over the challenge points (lines 216-222): the
\* variant against which the agreement at the challenge points is checked.
verify_merkle_only(self, proof) ==
  \A i \in 1..Len(proof.eval_indices) :
     i <= Len(proof.merkle_proofs) =>
       verify_merkle_proof(proof.merkle_root, proof.merkle_proofs[i],
                           serialize_field_element(proof.domain_evals[i]),
                           proof.eval_indices[i])

\* verify: both loops return false at the first failure, so the result is
\* the conjunction of the checks.  zip stops at the shorter of eval_indices
\* and merkle_proofs.
verify(self, proof) ==
  /\ \A i \in 1..Len(proof.eval_indices) :
        i <= Len(proof.merkle_proofs) =>
          verify_merkle_proof(proof.merkle_root, proof.merkle_proofs[i],
                              serialize_field_element(proof.domain_evals[i]),
                              proof.eval_indices[i])
  /\ \A i \in 1..Len(proof.challenge_points) :
        proof.challenge_evals[i] = evaluate_at(self, proof.challenge_points[i]).v

\* max_deg of fold (line 229).
maxDeg(self, other) ==
  IF self.degree >= other.degree THEN self.degree ELSE other.degree

\* A new_evals that adds other's evaluations without the coefficient: the
\* variant against which the linearity of fold is checked.
foldEvalsUnscaled(self, other, alpha) ==
  [i \in 1..(IF self.degree >= other.degree THEN self.degree ELSE other.degree) |->
     FieldAdd(IF i - 1 < self.degree THEN self.evaluations[i] ELSE zero,
              IF i - 1 < other.degree THEN other.evaluations[i] ELSE zero)]

\* new_evals of fold (lines 236-252).
foldEvals(self, other, alpha) ==
  [i \in 1..maxDeg(self, other) |->
     FieldAdd(IF i - 1 < self.degree THEN self.evaluations[i] ELSE zero,
              FieldMul(alpha, IF i - 1 < other.degree
                              THEN other.evaluations[i] ELSE zero))]

\* A fold whose accumulator keeps the root it had before the call: the
\* variant against which the root invariant is checked.
foldKeepingRoot(self, other, alpha, points) ==
  With(accumulate([self EXCEPT !.evaluations = foldEvals(self, other, alpha),
                               !.degree = maxDeg(self, other)],
                  foldEvals(self, other, alpha), points),
       LAMBDA r : [r EXCEPT !.acc.merkle_root = self.merkle_root])

\* fold, with the sampled alpha and challenge points as inputs.
fold(self, other, alpha, points) ==
  With([self EXCEPT !.evaluations = foldEvals(self, other, alpha),
                    !.degree = maxDeg(self, other)],
       LAMBDA s1 : accumulate(s1, SubSeq(s1.evaluations, 1, s1.degree), points))

-----------------------------------------------------------------------------
(* The state machines                                                      *)

AccIds == {"A", "B"}

\* What the caller holds: the proof, the accumulator and the call that
\* returned it ("accumulate" or "fold"), whether that accumulator was as
\* new() builds it before the call, the degrees of self and other before the
\* call, the accumulator as the call left it, the proof as the call returned
\* it, and what the caller has changed in the proof since.
NoHeld ==
  [has |-> FALSE, proof |-> NoProof, from |-> "-", by |-> "-", fresh |-> FALSE,
   degs |-> <<0, 0>>, src |-> new, orig |-> NoProof, tamper |-> "none"]

NoQuery ==
  [has |-> FALSE, leaf |-> <<>>, index |-> 0, proof |-> <<>>, of |-> 0,
   gen |-> "none", tamper |-> "none", result |-> "none"]

\* No field operation applied yet.
NoFld ==
  [op |-> "init", a |-> 0, b |-> 0, n |-> 0, raw |-> 0, v |-> 0, out |-> "value"]

\* The tree and the accumulators as their constructors build them.
Constructed ==
  /\ tree = MerkleNew(<<>>)
  /\ leaves = <<>>
  /\ query = NoQuery
  /\ accs = [a \in AccIds |-> new]
  /\ held = NoHeld
  /\ last = [op |-> "init", on |-> "-", len |-> 0, alpha |-> 0,
             panic |-> "none", result |-> "none"]
  /\ nOps = [accumulate |-> 0, fold |-> 0]

Init ==
  /\ fld = NoFld
  /\ Constructed

\* What a call that returned r (from accumulate or fold) leaves behind: the
\* accumulator as mutated, and the returned proof in the caller's hands.
Returned(a, r, by, len, alpha, fresh, degs) ==
  /\ accs' = [accs EXCEPT ![a] = r.acc]
  /\ last' = [op |-> by, on |-> a, len |-> len, alpha |-> alpha,
              panic |-> r.panic, result |-> "none"]
  /\ held' = IF r.panic = "none"
             THEN [has |-> TRUE, proof |-> r.proof, from |-> a, by |-> by,
                   fresh |-> fresh, degs |-> degs, src |-> r.acc,
                   orig |-> r.proof, tamper |-> "none"]
             ELSE held
  /\ nOps' = [nOps EXCEPT ![by] = nOps[by] + 1]
  /\ UNCHANGED <<fvars, mvars>>

\* acc.accumulate(state)
Accumulate(a) ==
  /\ last.panic = "none"
  /\ held.tamper = "none"
  /\ nOps.accumulate < MaxAccumulates
  /\ \E state \in StateInputs :
       \E points \in PointChoices(accs[a], Len(state)) :
         \E r \in {accumulate(accs[a], state, points)} :
           Returned(a, r, "accumulate", Len(state), 0, accs[a] = new,
                    <<accs[a].degree, 0>>)

\* a.fold(&b)
Fold(a, b) ==
  /\ last.panic = "none"
  /\ nOps.fold < MaxFolds
  /\ a # b
  /\ \E alpha \in Alphas :
       \E points \in PointChoices(accs[a], maxDeg(accs[a], accs[b])) :
         \E r \in {fold(accs[a], accs[b], alpha, points)} :
           Returned(a, r, "fold", 0, alpha, FALSE,
                    <<accs[a].degree, accs[b].degree>>)

\* acc.verify(&proof) on the proof the caller holds.
Verify(a) ==
  /\ last.panic = "none"
  /\ held.has
  /\ last' = [op |-> "verify", on |-> a, len |-> 0, alpha |-> 0,
              panic |-> "none",
              result |-> IF verify(accs[a], held.proof) THEN "true" ELSE "false"]
  /\ UNCHANGED <<accs, held, nOps, fvars, mvars>>

Next ==
  \/ \E a \in AccIds : Accumulate(a)
  \/ \E a, b \in AccIds : Fold(a, b)
  \/ \E a \in AccIds : Verify(a)

Spec == Init /\ [][Next]_vars

-----------------------------------------------------------------------------
(* The caller alters one entry of the proof it holds                       *)

\* Digests an audit-path element may be replaced with.
TamperDigests == {ZeroDigest, Sha256(<<7>>)}

\* The caller replaces domain_evals[i] by another field element.
TamperDomainEval(i) ==
  /\ held' = [held EXCEPT !.proof.domain_evals[i] = FieldAdd(@, one),
                          !.tamper = "domain_evals"]

\* The caller replaces challenge_evals[i] by another field element.
TamperChallengeEval(i) ==
  /\ held' = [held EXCEPT !.proof.challenge_evals[i] = FieldAdd(@, one),
                          !.tamper = "challenge_evals"]

\* The caller replaces element k of the audit path merkle_proofs[i] by
\* another digest.
TamperAuditPath(i, k) ==
  /\ \E d \in TamperDigests \ {held.proof.merkle_proofs[i][k]} :
       held' = [held EXCEPT !.proof.merkle_proofs[i][k] = d,
                            !.tamper = "merkle_proofs"]

Tamper ==
  /\ last.panic = "none"
  /\ held.has
  /\ held.tamper = "none"
  /\ last.op # "verify"
  /\ \E i \in 1..NUM_CHALLENGES :
       \/ TamperDomainEval(i)
       \/ TamperChallengeEval(i)
       \/ \E k \in 1..Len(held.proof.merkle_proofs[i]) : TamperAuditPath(i, k)
  /\ UNCHANGED <<accs, last, nOps, fvars, mvars>>

NextTamper ==
  \/ Accumulate("A")
  \/ Tamper
  \/ Verify("A")

SpecTamper == Init /\ [][NextTamper]_vars

-----------------------------------------------------------------------------
(* The field operations on bounded inputs                                  *)

\* Field elements the operations are applied to, and u64 values given to
\* FieldElement::new.
FieldInputs == {0, 1, 2, 3, 123456789, 1073741824, 2147483646}
RawInputs == {FIELD_PRIME - 1, FIELD_PRIME}

\* The operands are drawn first; one operation is then applied to them.
InitField ==
  /\ fld \in [op : {"init"}, a : FieldInputs, b : FieldInputs, n : 0..MaxExp,
              raw : RawInputs, v : {0}, out : {"value"}]
  /\ Constructed

\* fld once op has been applied: its value v and its outcome out ("value",
\* "none" for Option::None, "panic").
Applied(op, v, out) == [fld EXCEPT !.op = op, !.v = v, !.out = out]

\* FieldElement::new(raw)
FNew ==
  /\ fld.op = "init"
  /\ fld' = Applied("new", FieldNew(fld.raw), "value")
  /\ UNCHANGED <<mvars, avars>>

\* a + b
FAdd ==
  /\ fld.op = "init"
  /\ fld' = Applied("add", FieldAdd(fld.a, fld.b), "value")
  /\ UNCHANGED <<mvars, avars>>

\* a - b
FSub ==
  /\ fld.op = "init"
  /\ fld' = Applied("sub", FieldSub(fld.a, fld.b), "value")
  /\ UNCHANGED <<mvars, avars>>

\* a * b
FMul ==
  /\ fld.op = "init"
  /\ fld' = Applied("mul", FieldMul(fld.a, fld.b), "value")
  /\ UNCHANGED <<mvars, avars>>

\* a / b: a value, or the panic of line 116
FDiv ==
  /\ fld.op = "init"
  /\ \E r \in {FieldDiv(fld.a, fld.b)} :
       fld' = Applied("div", r.v, IF r.panic THEN "panic" ELSE "value")
  /\ UNCHANGED <<mvars, avars>>

\* a.pow(n)
FPow ==
  /\ fld.op = "init"
  /\ fld' = Applied("pow", pow(fld.a, fld.n), "value")
  /\ UNCHANGED <<mvars, avars>>

\* a.inverse(): Some(v) or None
FInverse ==
  /\ fld.op = "init"
  /\ \E r \in {inverse(fld.a)} :
       fld' = Applied("inverse", r.v, IF r.some THEN "value" ELSE "none")
  /\ UNCHANGED <<mvars, avars>>

NextField ==
  \/ FNew
  \/ FAdd
  \/ FSub
  \/ FMul
  \/ FDiv
  \/ FPow
  \/ FInverse

SpecField == InitField /\ [][NextField]_vars

-----------------------------------------------------------------------------
(* The Merkle tree on bounded leaf lists                                   *)

LeafBytes == {<<1>>, <<2>>}

LeafLists == UNION {[1..n -> LeafBytes] : n \in 0..MaxLeaves}

\* MerkleTree::new(lvs)
MNew ==
  /\ leaves = <<>>
  /\ \E lvs \in LeafLists :
       /\ tree' = MerkleNew(lvs)
       /\ leaves' = lvs
  /\ query' = NoQuery
  /\ UNCHANGED <<fvars, avars>>

\* tree.generate_proof(i): the caller now holds the proof, the index and
\* the leaf it will give to verify_proof.  gen is how generate_proof ended:
\* it has one way, returning a Vec ("proof"), empty when i >= leaf_count.
MGenerate ==
  /\ query.result = "none"
  /\ \E i \in 0..MaxLeaves :
       \E leaf \in (IF i < Len(leaves) THEN {leaves[i + 1]} ELSE LeafBytes) :
         query' = [has |-> TRUE, leaf |-> leaf, index |-> i,
                   proof |-> generate_proof(tree, i), of |-> i,
                   gen |-> "proof", tamper |-> "none", result |-> "none"]
  /\ UNCHANGED <<tree, leaves, fvars, avars>>

\* The caller changes the leaf, the index, or one element of the proof.
MTamper ==
  /\ query.has
  /\ query.tamper = "none"
  /\ query.result = "none"
  /\ \/ \E leaf \in (LeafBytes \cup {<<3>>}) \ {query.leaf} :
          query' = [query EXCEPT !.leaf = leaf, !.tamper = "leaf"]
     \/ \E j \in (0..(2 * MaxLeaves)) \ {query.index} :
          query' = [query EXCEPT !.index = j, !.tamper = "index"]
     \/ \E k \in 1..Len(query.proof) :
          \E d \in TamperDigests \ {query.proof[k]} :
            query' = [query EXCEPT !.proof[k] = d, !.tamper = "proof"]
  /\ UNCHANGED <<tree, leaves, fvars, avars>>

\* MerkleTree::verify_proof(&tree.root(), &leaf, &proof, index)
MVerify ==
  /\ query.has
  /\ query.result = "none"
  /\ query' = [query EXCEPT !.result =
                 IF verify_proof(root(tree), query.leaf, query.proof, query.index)
                 THEN "true" ELSE "false"]
  /\ UNCHANGED <<tree, leaves, fvars, avars>>

NextMerkle ==
  \/ MNew
  \/ MGenerate
  \/ MTamper
  \/ MVerify

SpecMerkle == Init /\ [][NextMerkle]_vars

-----------------------------------------------------------------------------
(* Reference definitions the properties are stated with                    *)

\* The product of n copies of a modulo the prime.
RECURSIVE Product(_, _)
Product(a, n) == IF n = 0 THEN 1 ELSE FieldMul(a, Product(a, n - 1))

\* a to the n by squaring, for large n: s.result * s.base ^ s.exp is a ^ n
\* throughout.
RECURSIVE PowerLoop(_)
PowerLoop(s) ==
  IF s.exp = 0 THEN s.result
  ELSE PowerLoop([result |-> IF s.exp % 2 = 1 THEN FieldMul(s.result, s.base)
                                              ELSE s.result,
                  base   |-> FieldMul(s.base, s.base),
                  exp    |-> s.exp \div 2])

Power(a, n) == PowerLoop([result |-> 1, base |-> a, exp |-> n])

\* The multiplicative inverse of a nonzero a (Fermat).
Reciprocal(a) == Power(a, FIELD_PRIME - 2)

\* The Lagrange basis polynomial of node i over domain[1..d] at x, as the
\* product over the nodes j in j..d other than i.
RECURSIVE Basis(_, _, _, _, _)
Basis(domain, d, i, x, j) ==
  IF j > d THEN 1
  ELSE IF j = i THEN Basis(domain, d, i, x, j + 1)
  ELSE FieldMul(FieldMul(FieldSub(x, domain[j]),
                         Reciprocal(FieldSub(domain[i], domain[j]))),
                Basis(domain, d, i, x, j + 1))

\* The value at x of the polynomial of degree < acc.degree that takes
\* evaluations[i] at domain[i]: the sum over the nodes i..degree.
RECURSIVE Interpolant(_, _, _)
Interpolant(acc, x, i) ==
  IF i > acc.degree THEN 0
  ELSE FieldAdd(FieldMul(acc.evaluations[i],
                         Basis(acc.domain, acc.degree, i, x, 1)),
                Interpolant(acc, x, i + 1))

\* Two accumulators encode the same polynomial: their interpolants agree on
\* as many domain points as the larger degree.
SamePolynomial(s, t) ==
  \A k \in 1..maxDeg(s, t) :
    Interpolant(s, s.domain[k], 1) = Interpolant(t, s.domain[k], 1)

\* verify has just returned on accumulator last.on, for the proof as the
\* call that made it returned it.
Verified == last.op = "verify" /\ held.has /\ held.tamper = "none"

\* verify has just returned on the accumulator that made the held proof,
\* unchanged since.
VerifiedAtSource ==
  /\ last.op = "verify"
  /\ held.has
  /\ last.on = held.from
  /\ accs[last.on] = held.src

-----------------------------------------------------------------------------
(* Properties                                                              *)

\* C1 (Spec): accumulate(state) on a fresh accumulator with
\* 1 <= Len(state) <= EVAL_DOMAIN_SIZE, followed by verify of the returned
\* proof on that accumulator, returns true whatever challenge points were
\* drawn.
C1_AccumulateThenVerify ==
  (/\ VerifiedAtSource
   /\ held.tamper = "none"
   /\ held.by = "accumulate"
   /\ held.fresh
   /\ held.src.degree \in 1..EVAL_DOMAIN_SIZE)
  => last.result = "true"

\* C2 (SpecMerkle): for a tree over n >= 1 leaves and an index i < n,
\* verify_proof(root, leaf[i], generate_proof(i), i) returns true.
C2_ProofVerifies ==
  (/\ query.result # "none"
   /\ query.tamper = "none"
   /\ query.of < Len(leaves))
  => query.result = "true"

\* C3 (Spec): when A and B both hold a state of length >= 1, the proof
\* returned by A.fold(&B) verifies against A as the fold left it, whatever
\* alpha and challenge points were drawn.
C3_FoldThenVerify ==
  (/\ VerifiedAtSource
   /\ held.tamper = "none"
   /\ held.by = "fold"
   /\ held.degs[1] >= 1
   /\ held.degs[2] >= 1)
  => last.result = "true"

\* C4 (SpecField): for a nonzero a, inverse(a) is Some(g) with a * g = 1;
\* and for a nonzero b, (a * b) / b = a.
C4_InverseAndDivision ==
  /\ (fld.op = "inverse" /\ fld.a # 0)
       => (fld.out = "value" /\ FieldMul(fld.a, fld.v) = 1)
  /\ (fld.op = "div" /\ fld.b # 0)
       => (fld.out = "value"
           /\ FieldDiv(FieldMul(fld.a, fld.b), fld.b).v = fld.a)

\* C5 (SpecField): a.pow(n) is the product of n copies of a modulo the
\* prime.
C5_PowIsProduct ==
  fld.op = "pow" => (fld.out = "value" /\ fld.v = Product(fld.a, fld.n))

\* C6 as stated (Spec): whenever verify returns true on an accumulator for
\* an unaltered proof, that accumulator encodes the same polynomial as the
\* accumulator the proof was generated against, whatever challenge points
\* the proof carries.
C6_VerifiedMeansSamePolynomial ==
  (Verified /\ last.result = "true") => SamePolynomial(accs[last.on], held.src)

\* C6 amended (Spec): whenever verify returns true on an accumulator for an
\* unaltered proof, that accumulator's evaluate_at and the evaluate_at of
\* the accumulator the proof was generated against agree at every challenge
\* point the proof carries.
C6_VerifiedMeansAgreeAtChallenges ==
  (Verified /\ last.result = "true")
  => \A i \in 1..Len(held.proof.challenge_points) :
       evaluate_at(accs[last.on], held.proof.challenge_points[i]).v
         = evaluate_at(held.src, held.proof.challenge_points[i]).v

\* C6 witness: verify has returned true on an accumulator whose evaluations
\* differ from those the proof was generated against, at challenge points
\* where neither evaluation took the zero-denominator return.
C6_Witness ==
  /\ Verified
  /\ last.result = "true"
  /\ accs[last.on].degree = held.src.degree
  /\ accs[last.on].evaluations # held.src.evaluations
  /\ \A i \in 1..Len(held.proof.challenge_points) :
       /\ evaluate_at(accs[last.on], held.proof.challenge_points[i]).path = "div"
       /\ evaluate_at(held.src, held.proof.challenge_points[i]).path = "div"

\* C7 (SpecMerkle): when verify_proof accepts leaf[i] with generate_proof(i)
\* at index i, it rejects the same call with exactly one input changed: the
\* leaf, the index, or one element of the proof.
C7_AlteredInputRejected ==
  (/\ query.result # "none"
   /\ query.tamper # "none"
   /\ query.of < Len(leaves)
   /\ verify_proof(root(tree), leaves[query.of + 1],
                   generate_proof(tree, query.of), query.of))
  => query.result = "false"

\* C8 (SpecTamper): for the proof returned by accumulate, with one entry of
\* domain_evals or of challenge_evals, or one audit-path element, replaced
\* by a different value, verify on that accumulator returns false.
C8_AlteredProofRejected ==
  (/\ VerifiedAtSource
   /\ held.by = "accumulate"
   /\ held.tamper # "none")
  => last.result = "false"

\* C8 witness: a proof that verifies as returned has had one audit-path
\* element replaced, and verify on its accumulator has returned false.
C8_Witness ==
  /\ VerifiedAtSource
  /\ held.by = "accumulate"
  /\ held.tamper = "merkle_proofs"
  /\ verify(held.src, held.orig)
  /\ last.result = "false"

\* C9 (Spec): accumulate with a state longer than EVAL_DOMAIN_SIZE returns
\* the StateTooLarge error: it does not panic and does not leave the
\* accumulator with degree > EVAL_DOMAIN_SIZE.
C9_StateTooLarge ==
  (last.op = "accumulate" /\ last.len > EVAL_DOMAIN_SIZE)
  => /\ last.panic = "none"
     /\ last.result = "StateTooLarge"
     /\ accs[last.on].degree <= EVAL_DOMAIN_SIZE

\* C10 (SpecField): dividing by zero yields a DivisionByZero failure
\* returned to the caller: neither a value nor a panic.
C10_DivisionByZero ==
  (fld.op = "div" /\ fld.b = 0) => fld.out = "DivisionByZero"

\* C11 (SpecMerkle): generate_proof(index) with index >= leaf_count, and
\* verify_proof called with such an index, end with the IndexOutOfRange
\* error: neither a proof nor a true/false answer.
C11_IndexOutOfRange ==
  /\ (query.has /\ query.of >= Len(leaves)) => query.gen = "IndexOutOfRange"
  /\ (query.result # "none" /\ query.index >= Len(leaves))
       => query.result = "IndexOutOfRange"

\* C12 (Spec): no call of accumulate or of fold panics; in particular
\* accumulate with the empty state, and fold of two accumulators of degree
\* 0, return a proof.
C12_NoPanic ==
  (last.op \in {"accumulate", "fold"})
  => /\ last.panic = "none"
     /\ held.has
     /\ held.by = last.op
     /\ held.from = last.on

\* C13 (SpecField): with a + b and a * b as the operations computed them,
\* and every c of the inputs: (a + b) + c = a + (b + c),
\* (a * b) * c = a * (b * c), a * (b + c) = a * b + a * c, a + zero = a,
\* a * one = a; and every result of new, +, - and * lies in [0, P).
C13_FieldLaws ==
  /\ fld.op = "add" =>
       /\ \A c \in FieldInputs :
            FieldAdd(fld.v, c) = FieldAdd(fld.a, FieldAdd(fld.b, c))
       /\ fld.b = zero => fld.v = fld.a
  /\ fld.op = "mul" =>
       /\ \A c \in FieldInputs :
            /\ FieldMul(fld.v, c) = FieldMul(fld.a, FieldMul(fld.b, c))
            /\ FieldMul(fld.a, FieldAdd(fld.b, c))
                 = FieldAdd(fld.v, FieldMul(fld.a, c))
       /\ fld.b = one => fld.v = fld.a
  /\ fld.op \in {"new", "add", "sub", "mul"} =>
       (fld.out = "value" /\ fld.v \in 0..(FIELD_PRIME - 1))

\* C13 witness: a product that wraps around the prime has been computed.
C13_Witness ==
  /\ fld.op = "mul"
  /\ fld.a = 123456789
  /\ fld.b = 2147483646
  /\ fld.v = FIELD_PRIME - 123456789

\* evaluations[i] (1-based) of acc, zero from position degree on.
Padded(acc, i) == IF i <= acc.degree THEN acc.evaluations[i] ELSE zero

\* C14 (Spec): every step that is a.fold(&b) with coefficient alpha leaves
\* a.degree = max(degA, degB) and, at every position i below it,
\* a.evaluations[i] = origA[i] + alpha * origB[i], missing positions taken
\* as zero; and it leaves b as it was.
C14_FoldIsLinear ==
  [][\A a, b \in AccIds :
       (/\ nOps'.fold = nOps.fold + 1
        /\ last'.op = "fold"
        /\ last'.on = a
        /\ b # a)
       => /\ accs'[a].degree \in {accs[a].degree, accs[b].degree}
          /\ accs'[a].degree >= accs[a].degree
          /\ accs'[a].degree >= accs[b].degree
          /\ Len(accs'[a].evaluations) >= accs'[a].degree
          /\ \A i \in 1..accs'[a].degree :
               accs'[a].evaluations[i]
                 = FieldAdd(Padded(accs[a], i),
                            FieldMul(last'.alpha, Padded(accs[b], i)))
          /\ accs'[b] = accs[b]]_vars

\* C14 witness: a fold of accumulators of different degrees, both >= 1,
\* with a coefficient other than zero, has returned.
C14_Witness ==
  /\ last.op = "fold"
  /\ last.panic = "none"
  /\ last.alpha # 0
  /\ held.degs[1] >= 1
  /\ held.degs[2] > held.degs[1]

\* C15 (Spec): in every state each accumulator of degree within the domain
\* size has as merkle_root the root of the Merkle tree over the 8-byte
\* little-endian serializations of evaluations[0..degree), which is the 32
\* zero bytes when degree is 0; and the proof a call of accumulate or fold
\* returned carries the root that call left in the accumulator.
C15_RootInvariant ==
  /\ \A a \in AccIds :
       accs[a].degree <= EVAL_DOMAIN_SIZE =>
         /\ accs[a].merkle_root
              = root(MerkleNew([k \in 1..accs[a].degree |->
                                  to_le_bytes(accs[a].evaluations[k], 8)]))
         /\ accs[a].degree = 0 => accs[a].merkle_root = ZeroDigest
  /\ held.has => held.orig.merkle_root = held.src.merkle_root

\* C15 witness: a fold has returned, leaving three evaluations and a root
\* other than the sentinel, which its proof carries.
C15_Witness ==
  /\ last.op = "fold"
  /\ last.panic = "none"
  /\ accs[last.on].degree = 3
  /\ accs[last.on].merkle_root # ZeroDigest
  /\ held.orig.merkle_root = accs[last.on].merkle_root

\* C16 (Spec): for an accumulator of degree d in 1..EVAL_DOMAIN_SIZE and
\* every x (here the challenge points and the first d domain points),
\* evaluate_at(x) is the value at x of the polynomial of degree < d that
\* takes evaluations[i] at domain[i]; at a domain point it is evaluations[i]
\* by lookup; and the challenge evaluations of a returned proof are such
\* values.
C16_EvaluateAtInterpolates ==
  /\ \A a \in AccIds :
       accs[a].degree \in 1..EVAL_DOMAIN_SIZE =>
         /\ \A x \in ChallengePoints :
              /\ ~evaluate_at(accs[a], x).panic
              /\ evaluate_at(accs[a], x).v = Interpolant(accs[a], x, 1)
         /\ \A k \in 1..accs[a].degree :
              /\ evaluate_at(accs[a], accs[a].domain[k]).path = "lookup"
              /\ evaluate_at(accs[a], accs[a].domain[k]).v = accs[a].evaluations[k]
  /\ held.has =>
       \A i \in 1..Len(held.orig.challenge_points) :
         held.orig.challenge_evals[i]
           = Interpolant(held.src, held.orig.challenge_points[i], 1)

=============================================================================
